---- MODULE Spec2Model ----
(***************************************************************************)
(* TTN webhook server: the POST /ttn ingestion handler in its two          *)
(* revisions (the tolerant one with generateUniqueId, and the strict one   *)
(* of server.js) running against the SensorReading collection, the GET     *)
(* endpoints that read the collection, and the collection's TTL index.     *)
(*                                                                         *)
(* A JavaScript value that may be undefined is modelled as a set with at   *)
(* most one element: {} is undefined, {v} is the value v.                  *)
(***************************************************************************)
EXTENDS Integers, Sequences, FiniteSets, TLC

VARIABLES revision, store, req, now, get

vars == <<revision, store, req, now, get>>

\* Number of deliveries that can be in flight at once.
MaxHandlers == 2

Handlers == 1..MaxHandlers

----------------------------------------------------------------------------
\* JavaScript optional values

None == {}
Some(x) == {x}
IsSome(o) == o # {}
Get(o) == CHOOSE x \in o : TRUE

\* `${x}` of a string that may be undefined
Interpolate(o) == IF IsSome(o) THEN Get(o) ELSE "undefined"

\* JavaScript truthiness of an optional string / an optional number
TruthyStr(o) == IsSome(o) /\ Get(o) # ""
TruthyNum(o) == IsSome(o) /\ Get(o) # 0

\* o || d
OrStr(o, d) == IF TruthyStr(o) THEN Get(o) ELSE d
OrNum(o, d) == IF TruthyNum(o) THEN Get(o) ELSE d

\* a number that may be NaN; a Date that may be Invalid Date
Num(n) == [nan |-> FALSE, v |-> n]
NaN == [nan |-> TRUE, v |-> 0]
DateOf(t) == [valid |-> TRUE, t |-> t]
InvalidDate == [valid |-> FALSE, t |-> 0]

----------------------------------------------------------------------------
\* Event bodies

TS1 == "2025-01-01T00:00:00Z"
TS2 == "2025-01-01T00:02:00Z"
BadTS == "not-a-date"

\* new Date(s) for the timestamp strings of the model, in minutes since TS1
ParseDate(o) ==
    IF ~IsSome(o) THEN InvalidDate
    ELSE IF Get(o) = TS1 THEN DateOf(0)
    ELSE IF Get(o) = TS2 THEN DateOf(2)
    ELSE InvalidDate

\* parseInt(s) for the frequency strings of the model
ParseInt(s) ==
    IF s = "868100000" THEN Num(868100000)
    ELSE IF s = "868300000" THEN Num(868300000)
    ELSE NaN

BaseLocation == [latitude |-> Some(-23), longitude |-> Some(-46), altitude |-> Some(760)]

BaseRx ==
    [rssi |-> Some(-75), snr |-> Some(9),
     gateway_ids |-> Some([gateway_id |-> Some("gw1"), eui |-> Some("gweui1")]),
     location |-> Some(BaseLocation),
     received_at |-> Some(TS1)]

BaseLora == [bandwidth |-> Some(125000), spreading_factor |-> Some(7), coding_rate |-> Some("4/5")]

BaseSettings ==
    [data_rate |-> Some([lora |-> Some(BaseLora)]), frequency |-> Some("868100000")]

BasePayload ==
    [temperature_celsius |-> Some(22), humidity_percent |-> Some(50), packet_counter |-> Some(7)]

BaseUplink ==
    [received_at |-> Some(TS1), f_cnt |-> Some(1), f_port |-> Some(2),
     decoded_payload |-> Some(BasePayload),
     rx_metadata |-> Some(<<BaseRx>>),
     settings |-> Some(BaseSettings)]

BaseIds ==
    [device_id |-> Some("d1"), dev_eui |-> Some("eui1"),
     application_ids |-> Some([application_id |-> Some("app1")])]

\* A complete uplink event without an idempotency token.
BaseBody ==
    [unique_id |-> None, end_device_ids |-> Some(BaseIds), uplink_message |-> Some(BaseUplink)]

WithIds(b, f, v) == [b EXCEPT !.end_device_ids = Some([Get(@) EXCEPT ![f] = v])]
WithUplink(b, f, v) == [b EXCEPT !.uplink_message = Some([Get(@) EXCEPT ![f] = v])]
WithPayload(b, f, v) ==
    WithUplink(b, "decoded_payload",
               Some([Get(Get(b.uplink_message).decoded_payload) EXCEPT ![f] = v]))
WithRx(b, f, v) ==
    WithUplink(b, "rx_metadata",
               Some(<<[Get(Get(b.uplink_message).rx_metadata)[1] EXCEPT ![f] = v]>>))
WithSettings(b, f, v) ==
    WithUplink(b, "settings",
               Some([Get(Get(b.uplink_message).settings) EXCEPT ![f] = v]))

\* The same event carrying an explicit idempotency token.
WithToken(b, u) == [b EXCEPT !.unique_id = Some(u)]

\* Events with a measurement outside its physical range.
OutOfRange(b) ==
    {WithPayload(b, "temperature_celsius", Some(150)),
     WithPayload(b, "humidity_percent", Some(-5)),
     WithPayload(WithPayload(b, "temperature_celsius", Some(-50)),
                 "humidity_percent", Some(150))}

\* Deliveries offered to the tolerant handler: the complete event, the event
\* with one part missing or changed, and events carrying a token.
TolerantBodies ==
    {BaseBody}
    \cup {[BaseBody EXCEPT !.end_device_ids = None], [BaseBody EXCEPT !.uplink_message = None]}
    \cup {WithIds(BaseBody, "device_id", Some("d2"))}
    \cup {WithUplink(BaseBody, "received_at", v) : v \in {None, Some(BadTS), Some(TS2)}}
    \cup {WithUplink(BaseBody, "f_cnt", v) : v \in {None, Some(0)}}
    \cup {WithUplink(BaseBody, f, None) :
            f \in {"f_port", "decoded_payload", "rx_metadata", "settings"}}
    \cup OutOfRange(BaseBody)
    \cup {WithRx(BaseBody, "location", None)}
    \cup {WithSettings(BaseBody, "frequency", Some("abc"))}
    \cup {WithToken(BaseBody, u) : u \in {"", "u1"}}
    \cup {[WithToken(BaseBody, "u1") EXCEPT !.uplink_message = None]}

\* Deliveries offered to the strict handler, whose schema requires the token.
StrictBodies ==
    {BaseBody}
    \cup {WithToken(BaseBody, u) : u \in {"", "u1", "u2"}}
    \cup {[WithToken(BaseBody, "u1") EXCEPT !.uplink_message = None]}
    \cup OutOfRange(WithToken(BaseBody, "u1"))
    \cup {WithUplink(WithToken(BaseBody, "u1"), "rx_metadata", Some(<<>>))}
    \cup {WithUplink(WithToken(BaseBody, "u1"), "received_at", Some(BadTS))}
    \cup {WithRx(WithToken(BaseBody, "u1"), "location", None)}
    \cup {WithSettings(WithToken(BaseBody, "u1"), "frequency", Some("abc"))}

----------------------------------------------------------------------------
\* generateUniqueId

\* body.uplink_message.f_cnt and body.end_device_ids.device_id can be read
CanGenerateUniqueId(body) == IsSome(body.uplink_message) /\ IsSome(body.end_device_ids)

\* a fingerprint of the device and the timestamp alone
HashInput_WithoutCounter(body) ==
    LET uplink == Get(body.uplink_message)
        deviceId == Get(body.end_device_ids).device_id
        timestamp == uplink.received_at
    IN  Interpolate(deviceId) \o "-" \o Interpolate(timestamp)

\* a fingerprint that also covers the measured temperature
HashInput_WithTemperature(body) ==
    LET uplink == Get(body.uplink_message)
        fcnt == OrNum(uplink.f_cnt, 0)
        deviceId == Get(body.end_device_ids).device_id
        timestamp == uplink.received_at
        temperature == IF IsSome(uplink.decoded_payload)
                       THEN OrNum(Get(uplink.decoded_payload).temperature_celsius, 0)
                       ELSE 0
    IN  Interpolate(deviceId) \o "-" \o ToString(fcnt) \o "-" \o Interpolate(timestamp)
            \o "-" \o ToString(temperature)

\* `${deviceId}-${fcnt}-${timestamp}`
HashInput(body) ==
    LET uplink == Get(body.uplink_message)
        fcnt == OrNum(uplink.f_cnt, 0)
        deviceId == Get(body.end_device_ids).device_id
        timestamp == uplink.received_at
    IN  Interpolate(deviceId) \o "-" \o ToString(fcnt) \o "-" \o Interpolate(timestamp)

\* sha256(data).digest("hex").substring(0, 16): a function of data alone,
\* taken to be collision free
Sha256Hex16(data) == "sha256:" \o data

GenerateUniqueId(body) == Sha256Hex16(HashInput(body))

\* a handler that always derives the key and ignores the supplied token
TolerantUniqueId_AlwaysDerived(body) ==
    IF CanGenerateUniqueId(body) THEN Some(GenerateUniqueId(body)) ELSE None

\* body.unique_id || generateUniqueId(body); None when generateUniqueId throws
TolerantUniqueId(body) ==
    IF TruthyStr(body.unique_id) THEN body.unique_id
    ELSE IF CanGenerateUniqueId(body) THEN Some(GenerateUniqueId(body))
    ELSE None

----------------------------------------------------------------------------
\* zod schemas

AllSome(r, fields) == \A f \in fields : IsSome(r[f])

RxEntryOk(rx) ==
    /\ AllSome(rx, {"rssi", "snr", "gateway_ids", "received_at"})
    /\ AllSome(Get(rx.gateway_ids), {"gateway_id", "eui"})

IdsOk(body) ==
    /\ IsSome(body.end_device_ids)
    /\ AllSome(Get(body.end_device_ids), {"device_id", "dev_eui", "application_ids"})
    /\ IsSome(Get(Get(body.end_device_ids).application_ids).application_id)

\* ttnWebhookSchema of the tolerant revision: payload, radio metadata, port,
\* counter and settings are optional
TolerantSchemaOk(body) ==
    /\ IsSome(body.uplink_message)
    /\ LET u == Get(body.uplink_message) IN
        /\ IsSome(u.received_at)
        /\ IsSome(u.decoded_payload) =>
              AllSome(Get(u.decoded_payload),
                      {"temperature_celsius", "humidity_percent", "packet_counter"})
        /\ IsSome(u.rx_metadata) =>
              \A i \in 1..Len(Get(u.rx_metadata)) : RxEntryOk(Get(u.rx_metadata)[i])
        /\ (IsSome(u.settings) /\ IsSome(Get(u.settings).data_rate)
                /\ IsSome(Get(Get(u.settings).data_rate).lora)) =>
              AllSome(Get(Get(Get(u.settings).data_rate).lora),
                      {"bandwidth", "spreading_factor"})
    /\ IdsOk(body)

\* ttnWebhookSchema of server.js: everything but the gateway location is required
StrictSchemaOk(body) ==
    /\ IsSome(body.uplink_message)
    /\ LET u == Get(body.uplink_message) IN
        /\ AllSome(u, {"received_at", "f_port", "f_cnt", "decoded_payload",
                       "rx_metadata", "settings"})
        /\ AllSome(Get(u.decoded_payload),
                   {"temperature_celsius", "humidity_percent", "packet_counter"})
        /\ \A i \in 1..Len(Get(u.rx_metadata)) :
              /\ RxEntryOk(Get(u.rx_metadata)[i])
              /\ IsSome(Get(u.rx_metadata)[i].location) =>
                    AllSome(Get(Get(u.rx_metadata)[i].location),
                            {"latitude", "longitude", "altitude"})
        /\ AllSome(Get(u.settings), {"data_rate", "frequency"})
        /\ IsSome(Get(Get(u.settings).data_rate).lora)
        /\ AllSome(Get(Get(Get(u.settings).data_rate).lora),
                   {"bandwidth", "spreading_factor", "coding_rate"})
    /\ IdsOk(body)
    /\ IsSome(body.unique_id)

----------------------------------------------------------------------------
\* The document built from an event

\* a document that never carries the gateway location
GatewayLocation_AlwaysNull(rx, altitude) == None

\* rxMetadata.location ? {latitude, longitude, altitude: altitude || d} : null
GatewayLocation(rx, altitude) ==
    IF IsSome(rx) /\ IsSome(Get(rx).location)
    THEN Some([latitude |-> Get(Get(rx).location).latitude,
               longitude |-> Get(Get(rx).location).longitude,
               altitude |-> altitude])
    ELSE None

\* the property accesses of the tolerant extraction that throw a TypeError:
\* uplink.decoded_payload, body.end_device_ids.device_id and
\* body.end_device_ids.application_ids.application_id
TolerantCanExtract(body) ==
    /\ IsSome(body.uplink_message)
    /\ IsSome(body.end_device_ids)
    /\ IsSome(Get(body.end_device_ids).application_ids)

\* a handler that clamps the temperature into its physical range
TolerantTemperature_Clamped(body) ==
    LET payload == Get(body.uplink_message).decoded_payload
        t == IF IsSome(payload) THEN OrNum(Get(payload).temperature_celsius, 0) ELSE 0
    IN  IF t > 80 THEN 80 ELSE IF t < -40 THEN -40 ELSE t

\* temperature || 0 and humidity || 0 as the tolerant handler reads them
TolerantTemperature(body) ==
    LET payload == Get(body.uplink_message).decoded_payload
    IN  IF IsSome(payload) THEN OrNum(Get(payload).temperature_celsius, 0) ELSE 0

\* a handler that marks a missing humidity with a sentinel
TolerantHumidity_Sentinel(body) ==
    LET payload == Get(body.uplink_message).decoded_payload
    IN  IF IsSome(payload) /\ IsSome(Get(payload).humidity_percent)
        THEN Get(Get(payload).humidity_percent) ELSE -1

TolerantHumidity(body) ==
    LET payload == Get(body.uplink_message).decoded_payload
    IN  IF IsSome(payload) THEN OrNum(Get(payload).humidity_percent, 0) ELSE 0

\* const document = {...} of the tolerant handler
TolerantDocument(body, unique_id) ==
    LET uplink == Get(body.uplink_message)
        ids == Get(body.end_device_ids)
        payload == uplink.decoded_payload
        \* uplink.rx_metadata?.[0] || {}
        rx == IF IsSome(uplink.rx_metadata) /\ Len(Get(uplink.rx_metadata)) > 0
              THEN Some(Get(uplink.rx_metadata)[1]) ELSE None
        gw == IF IsSome(rx) THEN Get(rx).gateway_ids ELSE None
        settings == uplink.settings
        rate == IF IsSome(settings) THEN Get(settings).data_rate ELSE None
        lora == IF IsSome(rate) THEN Get(rate).lora ELSE None
        frequency == IF IsSome(settings) THEN Get(settings).frequency ELSE None
    IN  [device_id |-> ids.device_id,
         dev_eui |-> ids.dev_eui,
         application_id |-> Get(ids.application_ids).application_id,
         temperature_celsius |-> TolerantTemperature(body),
         humidity_percent |-> TolerantHumidity(body),
         packet_counter |-> IF IsSome(payload) THEN OrNum(Get(payload).packet_counter, 0) ELSE 0,
         f_port |-> OrNum(uplink.f_port, 1),
         f_cnt |-> OrNum(uplink.f_cnt, 0),
         gateway_id |-> IF IsSome(gw) THEN OrStr(Get(gw).gateway_id, "unknown") ELSE "unknown",
         gateway_eui |-> IF IsSome(gw) THEN OrStr(Get(gw).eui, "unknown") ELSE "unknown",
         rssi |-> IF IsSome(rx) THEN OrNum(Get(rx).rssi, 0) ELSE 0,
         snr |-> IF IsSome(rx) THEN OrNum(Get(rx).snr, 0) ELSE 0,
         spreading_factor |-> IF IsSome(lora) THEN OrNum(Get(lora).spreading_factor, 0) ELSE 0,
         bandwidth |-> IF IsSome(lora) THEN OrNum(Get(lora).bandwidth, 0) ELSE 0,
         frequency |-> IF TruthyStr(frequency) THEN ParseInt(Get(frequency)) ELSE Num(0),
         gateway_location |->
             GatewayLocation(rx, IF IsSome(rx) /\ IsSome(Get(rx).location)
                                 THEN OrNum(Get(Get(rx).location).altitude, 0) ELSE 0),
         received_at |-> ParseDate(uplink.received_at),
         unique_id |-> unique_id,
         full_payload |-> body]

\* the range checks of the strict handler, on a validated body
TemperatureInRange(t) == ~(t < -40 \/ t > 80)
HumidityInRange(h) == ~(h < 0 \/ h > 100)

\* rxMetadata = uplink.rx_metadata[0] is undefined for an empty array, and
\* rxMetadata.gateway_ids then throws a TypeError
StrictCanExtract(body) == Len(Get(Get(body.uplink_message).rx_metadata)) > 0

\* const document = {...} of the strict handler, on a validated body
StrictDocument(body, unique_id) ==
    LET uplink == Get(body.uplink_message)
        ids == Get(body.end_device_ids)
        payload == Get(uplink.decoded_payload)
        rx == Get(uplink.rx_metadata)[1]
        settings == Get(uplink.settings)
        lora == Get(Get(settings.data_rate).lora)
    IN  [device_id |-> ids.device_id,
         dev_eui |-> ids.dev_eui,
         application_id |-> Get(ids.application_ids).application_id,
         temperature_celsius |-> Get(payload.temperature_celsius),
         humidity_percent |-> Get(payload.humidity_percent),
         packet_counter |-> Get(payload.packet_counter),
         f_port |-> Get(uplink.f_port),
         f_cnt |-> Get(uplink.f_cnt),
         gateway_id |-> Get(Get(rx.gateway_ids).gateway_id),
         gateway_eui |-> Get(Get(rx.gateway_ids).eui),
         rssi |-> Get(rx.rssi),
         snr |-> Get(rx.snr),
         spreading_factor |-> Get(lora.spreading_factor),
         bandwidth |-> Get(lora.bandwidth),
         frequency |-> ParseInt(Get(settings.frequency)),
         gateway_location |->
             GatewayLocation(Some(rx), IF IsSome(rx.location)
                                       THEN Get(Get(rx.location).altitude) ELSE 0),
         received_at |-> ParseDate(uplink.received_at),
         unique_id |-> unique_id,
         full_payload |-> body]

----------------------------------------------------------------------------
\* The SensorReading collection

\* SensorReading.findOne({ unique_id }): the first stored record with that key
Matching(st, unique_id) == {i \in 1..Len(st) : st[i].unique_id = unique_id}

\* an existence check that never finds the record
FindOne_NeverFinds(st, unique_id) == None

FindOne(st, unique_id) ==
    IF Matching(st, unique_id) = {} THEN None
    ELSE Some(st[CHOOSE i \in Matching(st, unique_id) :
                    \A j \in Matching(st, unique_id) : i <= j])

\* a cast that lets an Invalid Date through
SchemaCastOk_AcceptsInvalidDate(doc) == ~doc.frequency.nan

\* casting to the schema's types: Date rejects Invalid Date, Number rejects NaN
SchemaCastOk(doc) == doc.received_at.valid /\ ~doc.frequency.nan

\* the collection without its unique index
UniqueIndexAllows_NoIndex(st, doc) == TRUE

\* unique_id: { unique: true, sparse: true }: a document that carries a key
\* is rejected when a stored record carries the same key
UniqueIndexAllows(st, doc) ==
    ~IsSome(doc.unique_id) \/ Matching(st, doc.unique_id) = {}

\* new SensorReading(document): created_at: { type: Date, default: Date.now }
WithSchemaDefaults(doc, t) == [created_at |-> Some(DateOf(t))] @@ doc

\* create that checks the schema types but never the dedup key
CreateError_NoDuplicateCheck(st, doc) ==
    IF ~SchemaCastOk(doc) THEN "ValidationError" ELSE ""

\* the outcome of SensorReading.create(document) on a reachable collection:
\* the error it throws ("" for none) and the collection afterwards
CreateError(st, doc) ==
    IF ~SchemaCastOk(doc) THEN "ValidationError"
    ELSE IF ~UniqueIndexAllows(st, doc) THEN "E11000 duplicate key error"
    ELSE ""

\* a create that overwrites the stored record of the same key
Create_Upsert(st, doc) ==
    IF ~SchemaCastOk(doc) THEN st
    ELSE IF ~UniqueIndexAllows(st, doc)
    THEN [i \in 1..Len(st) |-> IF st[i].unique_id = doc.unique_id THEN doc ELSE st[i]]
    ELSE Append(st, doc)

\* a create that writes the document before it reports the rejection
Create_WritesBeforeRejecting(st, doc) == Append(st, doc)

Create(st, doc) ==
    IF CreateError(st, doc) = "" THEN Append(st, doc) ELSE st

\* records that predate the dedup feature carry no unique_id
LegacyRecord(t) ==
    LET doc == TolerantDocument(WithUplink(BaseBody, "received_at", Some(t)), None)
    IN  [WithSchemaDefaults(doc, doc.received_at.t)
            EXCEPT !.full_payload = [unique_id |-> None, end_device_ids |-> None,
                                     uplink_message |-> None]]

----------------------------------------------------------------------------
\* One POST /ttn delivery: req[h] is the handler's position and locals

Idle ==
    [pc |-> "idle", body |-> None, unique_id |-> None, warned |-> FALSE,
     document |-> None, err |-> "", res |-> None]

\* res.status(s).json({success, message, error, unique_id})
Response(status, success, message, error, unique_id) ==
    [status |-> status, success |-> success, message |-> message,
     error |-> error, unique_id |-> unique_id]

Responded(r, err, response) ==
    [r EXCEPT !.pc = "done", !.err = err, !.res = Some(response)]

\* catch (err) of the tolerant handler: 500 with err.message
TolerantCatch(r, err) ==
    Responded(r, err, Response(500, FALSE, None, Some(err), None))

\* catch (err) of the strict handler: 400 for a ZodError, 500 otherwise
StrictCatch(r, err) ==
    IF err = "ZodError"
    THEN Responded(r, err, Response(400, FALSE, None, Some("Dados inválidos"), None))
    ELSE Responded(r, err, Response(500, FALSE, None, Some("Erro interno"), None))

\* deliveries take the handler slots in order of arrival
NextToArrive(h) == req[h].pc = "idle" /\ \A g \in Handlers : g < h => req[g].pc # "idle"

\* Tolerant handler, from the request to the await of findOne
TolerantReceive(h, body) ==
    /\ revision = "tolerant"
    /\ NextToArrive(h)
    /\ LET unique_id == TolerantUniqueId(body)
           r == [req[h] EXCEPT !.body = Some(body), !.unique_id = unique_id]
       IN  req' = [req EXCEPT ![h] =
                IF ~IsSome(unique_id) THEN TolerantCatch(r, "TypeError")
                ELSE [r EXCEPT !.pc = "findOne", !.warned = ~TolerantSchemaOk(body)]]
    /\ UNCHANGED <<revision, store, now, get>>

\* Tolerant handler, from the result of findOne to the await of create
TolerantFindOne(h, up) ==
    /\ revision = "tolerant"
    /\ req[h].pc = "findOne"
    /\ LET r == req[h]
           body == Get(r.body)
       IN  req' = [req EXCEPT ![h] =
                IF ~up THEN TolerantCatch(r, "MongoNetworkError")
                ELSE IF IsSome(FindOne(store, r.unique_id))
                THEN Responded(r, "", Response(200, TRUE, Some("Duplicata ignorada"),
                                               None, r.unique_id))
                ELSE IF ~TolerantCanExtract(body) THEN TolerantCatch(r, "TypeError")
                ELSE [r EXCEPT !.pc = "create",
                               !.document = Some(TolerantDocument(body, r.unique_id))]]
    /\ UNCHANGED <<revision, store, now, get>>

\* Tolerant handler, from the result of create to the response
TolerantCreate(h, up) ==
    /\ revision = "tolerant"
    /\ req[h].pc = "create"
    /\ LET r == req[h]
           doc == WithSchemaDefaults(Get(r.document), now)
           err == IF up THEN CreateError(store, doc) ELSE "MongoNetworkError"
       IN  /\ store' = IF up THEN Create(store, doc) ELSE store
           /\ req' = [req EXCEPT ![h] =
                IF err # "" THEN TolerantCatch(r, err)
                ELSE Responded(r, "", Response(200, TRUE, Some("Dados armazenados"),
                                               None, r.unique_id))]
    /\ UNCHANGED <<revision, now, get>>

\* Strict handler, from the request to the await of findOne
StrictReceive(h, body) ==
    /\ revision = "strict"
    /\ NextToArrive(h)
    /\ LET r == [req[h] EXCEPT !.body = Some(body), !.unique_id = body.unique_id]
       IN  req' = [req EXCEPT ![h] =
                IF ~StrictSchemaOk(body) THEN StrictCatch(r, "ZodError")
                ELSE [r EXCEPT !.pc = "findOne"]]
    /\ UNCHANGED <<revision, store, now, get>>

\* Strict handler, from the result of findOne to the await of create
StrictFindOne(h, up) ==
    /\ revision = "strict"
    /\ req[h].pc = "findOne"
    /\ LET r == req[h]
           body == Get(r.body)
           payload == Get(Get(body.uplink_message).decoded_payload)
       IN  req' = [req EXCEPT ![h] =
                IF ~up THEN StrictCatch(r, "MongoNetworkError")
                ELSE IF IsSome(FindOne(store, r.unique_id))
                THEN Responded(r, "", Response(200, TRUE, Some("Duplicata ignorada"),
                                               None, None))
                ELSE IF ~TemperatureInRange(Get(payload.temperature_celsius))
                THEN Responded(r, "", Response(400, FALSE, None,
                                               Some("Temperatura inválida"), None))
                ELSE IF ~HumidityInRange(Get(payload.humidity_percent))
                THEN Responded(r, "", Response(400, FALSE, None,
                                               Some("Umidade inválida"), None))
                ELSE IF ~StrictCanExtract(body) THEN StrictCatch(r, "TypeError")
                ELSE [r EXCEPT !.pc = "create",
                               !.document = Some(StrictDocument(body, r.unique_id))]]
    /\ UNCHANGED <<revision, store, now, get>>

\* Strict handler, from the result of create to the response
StrictCreate(h, up) ==
    /\ revision = "strict"
    /\ req[h].pc = "create"
    /\ LET r == req[h]
           doc == WithSchemaDefaults(Get(r.document), now)
           err == IF up THEN CreateError(store, doc) ELSE "MongoNetworkError"
       IN  /\ store' = IF up THEN Create(store, doc) ELSE store
           /\ req' = [req EXCEPT ![h] =
                IF err # "" THEN StrictCatch(r, err)
                ELSE Responded(r, "", Response(200, TRUE, Some("Dados armazenados"),
                                               None, None))]
    /\ UNCHANGED <<revision, now, get>>

----------------------------------------------------------------------------

\* The collection when the server connects: it holds no record with a dedup
\* key, only records written before the key existed.
InitialStore == <<LegacyRecord(TS1), LegacyRecord(TS2)>>

\* The clock when the server starts, in minutes since TS1, and the GET
\* endpoints before their first request.
StartTime == ParseDate(Some(TS2)).t + 8
NoRequest == [pc |-> "idle"]

Init ==
    /\ revision \in {"tolerant", "strict"}
    /\ store = InitialStore
    /\ req = [h \in Handlers |-> Idle]
    /\ now = StartTime
    /\ get = NoRequest

Next ==
    \/ \E h \in Handlers : \E body \in TolerantBodies : TolerantReceive(h, body)
    \/ \E h \in Handlers : \E up \in BOOLEAN : TolerantFindOne(h, up)
    \/ \E h \in Handlers : \E up \in BOOLEAN : TolerantCreate(h, up)
    \/ \E h \in Handlers : \E body \in StrictBodies : StrictReceive(h, body)
    \/ \E h \in Handlers : \E up \in BOOLEAN : StrictFindOne(h, up)
    \/ \E h \in Handlers : \E up \in BOOLEAN : StrictCreate(h, up)

Spec == Init /\ [][Next]_vars

----------------------------------------------------------------------------
\* Queries on the collection

\* a query that does not filter by device
OfDevice_AnyDevice(st, device_id) == 1..Len(st)

\* SensorReading.find({ device_id }), as positions in the collection
OfDevice(st, device_id) == {i \in 1..Len(st) : st[i].device_id = Some(device_id)}

\* .sort({ received_at: -1 }): the orders in which the sort can return the
\* records at the positions S; records of equal received_at come in any order
RECURSIVE SortedDesc(_, _)
SortedDesc(st, S) ==
    IF S = {} THEN {<<>>}
    ELSE LET newest == {i \in S : \A j \in S : st[j].received_at.t <= st[i].received_at.t}
         IN  UNION {{<<i>> \o s : s \in SortedDesc(st, S \ {i})} : i \in newest}

\* .skip(n) and .limit(n) on a sorted result; a limit of 0 is no limit
Skip(order, n) == SubSeq(order, n + 1, Len(order))
Limit(order, n) ==
    IF n = 0 THEN order
    ELSE SubSeq(order, 1, IF n < Len(order) THEN n ELSE Len(order))

\* $min, $max and $sum of a field over the records at the positions S
MinOf(st, S, f) == CHOOSE v \in {st[i][f] : i \in S} : \A i \in S : v <= st[i][f]
MaxOf(st, S, f) == CHOOSE v \in {st[i][f] : i \in S} : \A i \in S : st[i][f] <= v

RECURSIVE SumOf(_, _, _)
SumOf(st, S, f) ==
    IF S = {} THEN 0
    ELSE LET i == CHOOSE j \in S : TRUE IN st[i][f] + SumOf(st, S \ {i}, f)

\* 10^digits
RECURSIVE Pow10(_)
Pow10(digits) == IF digits = 0 THEN 1 ELSE 10 * Pow10(digits - 1)

\* (num / den).toFixed(digits), den > 0: the decimal string with that many
\* digits after the point that is nearest to the quotient, a tie going away
\* from zero; the string is held as its digits, scaled by 10^digits
ToFixed(num, den, digits) ==
    LET abs == IF num < 0 THEN -num ELSE num
        n == (2 * abs * Pow10(digits) + den) \div (2 * den)
    IN  [digits |-> digits, scaled |-> IF num < 0 THEN -n ELSE n]

----------------------------------------------------------------------------
\* The GET endpoints: get is the one GET request being served and its answer

\* res.status(status).json(json) to the request with the query parameters
Answer(endpoint, query, status, json) ==
    [pc |-> "done", endpoint |-> endpoint, query |-> query, err |-> "",
     status |-> status, json |-> json]

MissingDeviceId(endpoint, query) ==
    Answer(endpoint, query, 400, [error |-> "device_id é obrigatório"])

\* catch (err) of the GET handlers
GetCatch(endpoint, query, err) ==
    [Answer(endpoint, query, 500, [error |-> "Erro interno"]) EXCEPT !.err = err]

\* GET /api/sensor/latest
LatestAnswers(st, device_id, up) ==
    LET query == [device_id |-> device_id]
    IN  IF ~TruthyStr(device_id) THEN {MissingDeviceId("latest", query)}
        ELSE IF ~up THEN {GetCatch("latest", query, "MongoNetworkError")}
        ELSE IF OfDevice(st, Get(device_id)) = {}
        THEN {Answer("latest", query, 404, [error |-> "Nenhuma leitura encontrada"])}
        ELSE {Answer("latest", query, 200, st[order[1]]) :
                order \in SortedDesc(st, OfDevice(st, Get(device_id)))}

Latest(device_id, up) ==
    /\ get.pc = "idle"
    /\ get' \in LatestAnswers(store, device_id, up)
    /\ UNCHANGED <<revision, store, req, now>>

\* a switch whose default is the shortest window
Window_DefaultOneHour(period) ==
    CASE period = "24h" -> 24 * 60
      [] period = "7d" -> 7 * 24 * 60
      [] period = "30d" -> 30 * 24 * 60
      [] OTHER -> 1 * 60

\* now - startDate of the statistics handler, in minutes
Window(period) ==
    CASE period = "1h" -> 1 * 60
      [] period = "24h" -> 24 * 60
      [] period = "7d" -> 7 * 24 * 60
      [] period = "30d" -> 30 * 24 * 60
      [] OTHER -> 24 * 60

\* a $match on the device alone
InWindow_AllTime(st, device_id, startDate) == OfDevice(st, device_id)

\* $match: { device_id, received_at: { $gte: startDate } }
InWindow(st, device_id, startDate) ==
    {i \in OfDevice(st, device_id) : st[i].received_at.t >= startDate}

\* $group: { _id: null, ... } yields no row when nothing matches
GroupIsEmpty(match) == match = {}

\* Math.floor((now - startDate) / (2 * 60 * 1000))
ExpectedPackets(window) == window \div 2

\* a rate that is capped at 100
SuccessRate_Capped(packet_count, expectedPackets) ==
    IF packet_count > expectedPackets THEN ToFixed(100, 1, 2)
    ELSE ToFixed(packet_count * 100, expectedPackets, 2)

\* parseFloat(((packet_count / expectedPackets) * 100).toFixed(2))
SuccessRate(packet_count, expectedPackets) ==
    IF expectedPackets > 0 THEN ToFixed(packet_count * 100, expectedPackets, 2)
    ELSE ToFixed(0, 1, 0)

\* the min, max and avg of one field in the statistics response
MinMaxAvg(min, max, avg) == [min |-> min, max |-> max, avg |-> avg]

\* GET /api/sensor/statistics at the time t
StatisticsAnswer(st, t, device_id, period, up) ==
    LET query == [device_id |-> device_id, period |-> period]
        p == IF IsSome(period) THEN Get(period) ELSE "24h"
        startDate == t - Window(p)
        match == InWindow(st, Get(device_id), startDate)
        packet_count == Cardinality(match)
        Avg(f, digits) == ToFixed(SumOf(st, match, f), packet_count, digits)
    IN  IF ~TruthyStr(device_id) THEN MissingDeviceId("statistics", query)
        ELSE IF ~up THEN GetCatch("statistics", query, "MongoNetworkError")
        ELSE IF GroupIsEmpty(match)
        THEN Answer("statistics", query, 404, [error |-> "Nenhum dado encontrado"])
        ELSE Answer("statistics", query, 200,
                [period |-> p,
                 temperature |->
                    MinMaxAvg(ToFixed(MinOf(st, match, "temperature_celsius"), 1, 2),
                              ToFixed(MaxOf(st, match, "temperature_celsius"), 1, 2),
                              Avg("temperature_celsius", 2)),
                 humidity |->
                    MinMaxAvg(ToFixed(MinOf(st, match, "humidity_percent"), 1, 1),
                              ToFixed(MaxOf(st, match, "humidity_percent"), 1, 1),
                              Avg("humidity_percent", 1)),
                 rssi |-> MinMaxAvg(MinOf(st, match, "rssi"), MaxOf(st, match, "rssi"),
                                    Avg("rssi", 1)),
                 snr |-> MinMaxAvg(MinOf(st, match, "snr"), MaxOf(st, match, "snr"),
                                   Avg("snr", 1)),
                 packet_count |-> packet_count,
                 success_rate |-> SuccessRate(packet_count, ExpectedPackets(t - startDate))])

Statistics(device_id, period, up) ==
    /\ get.pc = "idle"
    /\ get' = StatisticsAnswer(store, now, device_id, period, up)
    /\ UNCHANGED <<revision, store, req, now>>

\* the band of a mean RSSI that takes each threshold into the band above it
QualityBand_Inclusive(sum, n) ==
    IF sum >= -70 * n THEN "excellent"
    ELSE IF sum >= -80 * n THEN "good"
    ELSE IF sum >= -90 * n THEN "fair"
    ELSE "poor"

\* the band of the mean RSSI sum / n, n > 0
QualityBand(sum, n) ==
    IF sum > -70 * n THEN "excellent"
    ELSE IF sum > -80 * n THEN "good"
    ELSE IF sum > -90 * n THEN "fair"
    ELSE "poor"

\* parseInt(limit) and parseInt(skip) of the query string, for the text of a
\* natural number, and their defaults
LimitOf(limit) == IF IsSome(limit) THEN Get(limit) ELSE 100
SkipOf(skip) == IF IsSome(skip) THEN Get(skip) ELSE 0

\* the response of the quality handler for the readings at the positions
\* readings, newest first
QualityJson(st, readings) ==
    LET n == Len(readings)
        rssiValues == [k \in 1..n |-> st[readings[k]].rssi]
        sum == SumOf(st, {readings[k] : k \in 1..n}, "rssi")
        Count(lo, hi) == Cardinality({k \in 1..n : lo < rssiValues[k] /\ rssiValues[k] <= hi})
    IN  [current_rssi |-> rssiValues[1],
         avg_rssi |-> ToFixed(sum, n, 1),
         quality |-> QualityBand(sum, n),
         signal_strength |->
            [excellent |-> Cardinality({k \in 1..n : rssiValues[k] > -70}),
             good |-> Count(-80, -70),
             fair |-> Count(-90, -80),
             poor |-> Cardinality({k \in 1..n : rssiValues[k] <= -90})],
         total_readings |-> n]

\* GET /api/sensor/quality
QualityAnswers(st, device_id, limit, up) ==
    LET query == [device_id |-> device_id, limit |-> limit]
    IN  IF ~TruthyStr(device_id) THEN {MissingDeviceId("quality", query)}
        ELSE IF ~up THEN {GetCatch("quality", query, "MongoNetworkError")}
        ELSE IF OfDevice(st, Get(device_id)) = {}
        THEN {Answer("quality", query, 404, [error |-> "Nenhuma leitura encontrada"])}
        ELSE {Answer("quality", query, 200, QualityJson(st, Limit(order, LimitOf(limit)))) :
                order \in SortedDesc(st, OfDevice(st, Get(device_id)))}

Quality(device_id, limit, up) ==
    /\ get.pc = "idle"
    /\ get' \in QualityAnswers(store, device_id, limit, up)
    /\ UNCHANGED <<revision, store, req, now>>

\* the filter of the readings handler: device_id, and received_at between
\* new Date(start_date) and new Date(end_date) where they are given; an
\* Invalid Date in the filter fails the query's cast
RangeCastOk(query) ==
    /\ TruthyStr(query.start_date) => ParseDate(query.start_date).valid
    /\ TruthyStr(query.end_date) => ParseDate(query.end_date).valid

\* a filter on the dates alone
InRange_AllDevices(st, query) ==
    {i \in 1..Len(st) :
        /\ TruthyStr(query.start_date) =>
              st[i].received_at.t >= ParseDate(query.start_date).t
        /\ TruthyStr(query.end_date) =>
              st[i].received_at.t <= ParseDate(query.end_date).t}

InRange(st, query) ==
    {i \in OfDevice(st, Get(query.device_id)) :
        /\ TruthyStr(query.start_date) =>
              st[i].received_at.t >= ParseDate(query.start_date).t
        /\ TruthyStr(query.end_date) =>
              st[i].received_at.t <= ParseDate(query.end_date).t}

\* GET /api/sensor/readings, from the request to the await of countDocuments
ReadingsFind(query, up) ==
    /\ get.pc = "idle"
    /\ get' \in
        IF ~TruthyStr(query.device_id) THEN {MissingDeviceId("readings", query)}
        ELSE IF ~RangeCastOk(query) THEN {GetCatch("readings", query, "CastError")}
        ELSE IF ~up THEN {GetCatch("readings", query, "MongoNetworkError")}
        ELSE {[pc |-> "count", endpoint |-> "readings", query |-> query,
               data |-> [k \in 1..Len(page) |-> store[page[k]]]] :
                page \in {Limit(Skip(order, SkipOf(query.skip)), LimitOf(query.limit)) :
                            order \in SortedDesc(store, InRange(store, query))}}
    /\ UNCHANGED <<revision, store, req, now>>

\* GET /api/sensor/readings, from the result of countDocuments to the response
ReadingsCount(up) ==
    /\ get.pc = "count"
    /\ get' = IF ~up THEN GetCatch("readings", get.query, "MongoNetworkError")
              ELSE Answer("readings", get.query, 200,
                          [total |-> Cardinality(InRange(store, get.query)),
                           limit |-> LimitOf(get.query.limit),
                           skip |-> SkipOf(get.query.skip),
                           data |-> get.data])
    /\ UNCHANGED <<revision, store, req, now>>

\* GET /health
Health ==
    /\ get.pc = "idle"
    /\ get' = Answer("health", [device_id |-> None], 200,
                     [status |-> "ok", timestamp |-> DateOf(now)])
    /\ UNCHANGED <<revision, store, req, now>>

\* the response has been sent: the endpoints take the next request
GetEnd ==
    /\ get.pc = "done"
    /\ get' = NoRequest
    /\ UNCHANGED <<revision, store, req, now>>

----------------------------------------------------------------------------
\* The GET endpoints on a collection of readings

\* Readings per collection, and the readings of one device within one hour.
MaxReadings == 3
BurstSize == 31

\* a stored reading of a device, received and created at the minute t
Reading(device_id, temperature, humidity, rssi, snr, t) ==
    [LegacyRecord(TS1) EXCEPT !.device_id = Some(device_id),
                              !.temperature_celsius = temperature,
                              !.humidity_percent = humidity,
                              !.rssi = rssi,
                              !.snr = snr,
                              !.received_at = DateOf(t),
                              !.created_at = Some(DateOf(t))]

Samples ==
    {Reading("d1", 20, 50, -70, 9, 0),
     Reading("d1", 22, 51, -80, -3, 2),
     Reading("d1", 24, 51, -90, 10, 2),
     Reading("d1", 21, 40, -69, 5, 1),
     Reading("d2", 30, 60, -60, 7, 0)}

\* collections of up to MaxReadings different readings, and a collection
\* with BurstSize readings of one device, one a minute
SampleStores ==
    {st \in UNION {[1..n -> Samples] : n \in 0..MaxReadings} :
        \A i, j \in 1..Len(st) : st[i] = st[j] => i = j}

BurstStore == [i \in 1..BurstSize |-> Reading("d1", 22, 50, -75, 9, i - 1)]

\* request times around the start of each statistics window
QueryTimes ==
    {30} \cup {Window(p) + k : p \in {"1h", "24h", "7d", "30d"}, k \in {0, 1, 2, 3}}

\* query parameters of the GET requests
DeviceIds == {None, Some("d1"), Some("d2"), Some("d3")}
Periods == {None, Some("1h"), Some("24h"), Some("7d"), Some("30d"), Some("2h")}
Limits == {None, Some(0), Some(1), Some(2)}
ReadingsQueries ==
    [device_id : DeviceIds, limit : {None, Some(0), Some(1)}, skip : {None, Some(1)},
     start_date : {None, Some(TS2), Some(BadTS)}, end_date : {None, Some(TS1)}]

InitQuery ==
    /\ revision \in {"tolerant", "strict"}
    /\ store \in SampleStores \cup {BurstStore}
    /\ req = [h \in Handlers |-> Idle]
    /\ now \in QueryTimes
    /\ get = NoRequest

NextQuery ==
    \/ \E device_id \in DeviceIds : \E up \in BOOLEAN : Latest(device_id, up)
    \/ \E device_id \in DeviceIds : \E period \in Periods : \E up \in BOOLEAN :
          Statistics(device_id, period, up)
    \/ \E device_id \in DeviceIds : \E limit \in Limits : \E up \in BOOLEAN :
          Quality(device_id, limit, up)
    \/ \E query \in ReadingsQueries : \E up \in BOOLEAN : ReadingsFind(query, up)
    \/ \E up \in BOOLEAN : ReadingsCount(up)
    \/ Health
    \/ GetEnd

SpecQuery == InitQuery /\ [][NextQuery]_vars

----------------------------------------------------------------------------
\* Time and the TTL index on created_at

\* expireAfterSeconds: 90 * 24 * 60 * 60, in minutes
ExpireAfter == 90 * 24 * 60

\* an index that expires the records by the time of the event
Expired_ByReceivedAt(rec, t) == rec.received_at.valid /\ rec.received_at.t + ExpireAfter <= t

\* the record is due for removal at the time t
Expired(rec, t) ==
    /\ IsSome(rec.created_at)
    /\ Get(rec.created_at).valid
    /\ Get(rec.created_at).t + ExpireAfter <= t

RemoveAt(st, i) == SubSeq(st, 1, i - 1) \o SubSeq(st, i + 1, Len(st))

\* the database's TTL pass deletes an expired record
Reap(i) ==
    /\ i \in 1..Len(store)
    /\ Expired(store[i], now)
    /\ store' = RemoveAt(store, i)
    /\ UNCHANGED <<revision, req, now, get>>

\* Clock steps in a run, each of half the retention period.
MaxTicks == 2

\* time passes between requests: no request is in progress for days
Tick ==
    /\ now < StartTime + MaxTicks * (ExpireAfter \div 2)
    /\ \A h \in Handlers : req[h].pc \in {"idle", "done"}
    /\ get.pc = "idle"
    /\ now' = now + ExpireAfter \div 2
    /\ UNCHANGED <<revision, store, req, get>>

----------------------------------------------------------------------------
\* The server in service: deliveries, GET requests, the clock and the TTL pass

\* Deliveries to the tolerant handler: one event, and the same event with
\* another temperature under the same token.
ServiceBodies ==
    {WithToken(BaseBody, "u1"),
     WithPayload(WithToken(BaseBody, "u1"), "temperature_celsius", Some(23))}

ServiceQuery ==
    [device_id |-> Some("d1"), limit |-> Some(1), skip |-> None,
     start_date |-> None, end_date |-> None]

InitService ==
    /\ revision = "tolerant"
    /\ store = InitialStore
    /\ req = [h \in Handlers |-> Idle]
    /\ now = StartTime
    /\ get = NoRequest

NextService ==
    \/ \E h \in Handlers : \E body \in ServiceBodies : TolerantReceive(h, body)
    \/ \E h \in Handlers : \E up \in BOOLEAN : TolerantFindOne(h, up)
    \/ \E h \in Handlers : \E up \in BOOLEAN : TolerantCreate(h, up)
    \/ \E up \in BOOLEAN : Latest(Some("d1"), up)
    \/ \E up \in BOOLEAN : Statistics(Some("d1"), Some("30d"), up)
    \/ \E up \in BOOLEAN : Quality(Some("d1"), None, up)
    \/ \E up \in BOOLEAN : ReadingsFind(ServiceQuery, up)
    \/ \E up \in BOOLEAN : ReadingsCount(up)
    \/ Health
    \/ GetEnd
    \/ Tick
    \/ \E i \in 1..Len(store) : Reap(i)

SpecService == InitService /\ [][NextService]_vars

\* The same server with GET /api/sensor/latest as its one GET endpoint
NextRetention ==
    \/ \E h \in Handlers : \E body \in ServiceBodies : TolerantReceive(h, body)
    \/ \E h \in Handlers : \E up \in BOOLEAN : TolerantFindOne(h, up)
    \/ \E h \in Handlers : \E up \in BOOLEAN : TolerantCreate(h, up)
    \/ \E up \in BOOLEAN : Latest(Some("d1"), up)
    \/ GetEnd
    \/ Tick
    \/ \E i \in 1..Len(store) : Reap(i)

SpecRetention == InitService /\ [][NextRetention]_vars

\* the TTL pass runs again and again, whatever the server does
SpecRetentionFair == SpecRetention /\ WF_vars(\E i \in 1..Len(store) : Reap(i))

----------------------------------------------------------------------------
\* Properties of the ingestion path

Done(h) == req[h].pc = "done"
Status(h) == Get(req[h].res).status
DuplicateKey == "E11000 duplicate key error"

\* the handlers that were given the event b
DeliveriesOf(b) == {h \in Handlers : req[h].body = Some(b)}

\* C1: when two or more deliveries of the same event have all finished in the
\* tolerant handler, and none of them met anything but a duplicate (no store
\* outage, no rejected document), the collection holds exactly one record with
\* the event's unique_id, whatever the interleaving of their findOne and create
C1_ConcurrentDuplicatesStoreOne ==
    revision = "tolerant" =>
        \A b \in TolerantBodies :
            (/\ Cardinality(DeliveriesOf(b)) >= 2
             /\ IsSome(TolerantUniqueId(b))
             /\ \A h \in DeliveriesOf(b) : Done(h) /\ req[h].err \in {"", DuplicateKey})
            => Cardinality(Matching(store, TolerantUniqueId(b))) = 1

\* two deliveries of one event both passed the existence check; one insert won
C1_Witness ==
    /\ revision = "tolerant"
    /\ req[1].body = req[2].body
    /\ Done(1) /\ Done(2)
    /\ req[1].err = "" /\ Get(req[1].res).message = Some("Dados armazenados")
    /\ req[2].err = DuplicateKey
    /\ Cardinality(Matching(store, req[1].unique_id)) = 1

\* C2 (as claimed): a delivery whose insert is rejected by the unique index
\* is answered 200 with success, never with an error status
C2_LosingInsertAnswered200 ==
    \A h \in Handlers :
        (revision = "tolerant" /\ Done(h) /\ req[h].err = DuplicateKey)
            => (Status(h) = 200 /\ Get(req[h].res).success)

\* C3: no two stored records that carry a unique_id carry the same one
C3_UniqueIdUnique ==
    \A i, j \in 1..Len(store) :
        (IsSome(store[i].unique_id) /\ store[i].unique_id = store[j].unique_id) => i = j

\* a colliding insert was attempted and refused, next to two records that
\* carry no unique_id at all
C3_Witness ==
    /\ \E h \in Handlers : Done(h) /\ req[h].err = DuplicateKey
    /\ \E i, j \in 1..Len(store) :
          i # j /\ ~IsSome(store[i].unique_id) /\ ~IsSome(store[j].unique_id)
    /\ \E i \in 1..Len(store) : IsSome(store[i].unique_id)

\* handler h completes its existence check in this step, and the collection
\* holds a record with the event's unique_id
FindsExisting(h) ==
    /\ req[h].pc = "findOne"
    /\ req'[h] # req[h]
    /\ req'[h].err # "MongoNetworkError"
    /\ \E i \in 1..Len(store) : store[i].unique_id = req[h].unique_id

DuplicateIgnored(unique_id) ==
    Some(Response(200, TRUE, Some("Duplicata ignorada"), None, unique_id))

\* C4 (as claimed): when the existence check finds a record, the handler
\* inserts nothing, the collection is unchanged and the response is 200 with
\* success, the duplicate-ignored message and the unique_id
C4_DuplicateSkippedWithId ==
    [][\A h \in Handlers :
          FindsExisting(h) =>
              /\ store' = store
              /\ req'[h].pc = "done"
              /\ req'[h].res = DuplicateIgnored(req[h].unique_id)]_vars

\* C4 (amended): as claimed, except that the response of the strict revision
\* carries no unique_id
C4_DuplicateSkipped ==
    [][\A h \in Handlers :
          FindsExisting(h) =>
              /\ store' = store
              /\ req'[h].pc = "done"
              /\ req'[h].res = DuplicateIgnored(IF revision = "tolerant"
                                                THEN req[h].unique_id ELSE None)]_vars

\* a delivery was recognised as a duplicate by the existence check
C4_Witness ==
    \E h \in Handlers :
        /\ Done(h)
        /\ req[h].res = DuplicateIgnored(req[h].unique_id)
        /\ IsSome(req[h].unique_id)
        /\ Matching(store, req[h].unique_id) # {}

\* handler h's create is accepted by the collection in this step
CreateAccepted(h) ==
    /\ req[h].pc = "create"
    /\ req'[h].pc = "done"
    /\ req'[h].err = ""

\* handler h completes its existence check in this step and finds no record
FindsNone(h) ==
    /\ req[h].pc = "findOne"
    /\ req'[h] # req[h]
    /\ req'[h].err # "MongoNetworkError"
    /\ \A i \in 1..Len(store) : store[i].unique_id # req[h].unique_id

\* the record that a schema-valid event determines, field by field: what the
\* event supplies, the fallback of the handler where it supplies nothing
NormalizedFrom(rec, body) ==
    LET ids == Get(body.end_device_ids)
        u == Get(body.uplink_message)
        hasRx == IsSome(u.rx_metadata) /\ Len(Get(u.rx_metadata)) > 0
        rx == Get(u.rx_metadata)[1]
        token == IF IsSome(body.unique_id) /\ Get(body.unique_id) # ""
                 THEN Get(body.unique_id)
                 ELSE Sha256Hex16(Get(ids.device_id) \o "-"
                          \o ToString(IF IsSome(u.f_cnt) THEN Get(u.f_cnt) ELSE 0)
                          \o "-" \o Get(u.received_at))
    IN  /\ rec.device_id = ids.device_id
        /\ rec.dev_eui = ids.dev_eui
        /\ rec.application_id = Get(ids.application_ids).application_id
        /\ IsSome(u.decoded_payload) =>
              /\ rec.temperature_celsius = Get(Get(u.decoded_payload).temperature_celsius)
              /\ rec.humidity_percent = Get(Get(u.decoded_payload).humidity_percent)
              /\ rec.packet_counter = Get(Get(u.decoded_payload).packet_counter)
        /\ rec.f_port = (IF IsSome(u.f_port) /\ Get(u.f_port) # 0 THEN Get(u.f_port) ELSE 1)
        /\ rec.f_cnt = (IF IsSome(u.f_cnt) THEN Get(u.f_cnt) ELSE 0)
        /\ hasRx =>
              /\ rec.gateway_id = Get(Get(rx.gateway_ids).gateway_id)
              /\ rec.gateway_eui = Get(Get(rx.gateway_ids).eui)
              /\ rec.rssi = Get(rx.rssi)
              /\ rec.snr = Get(rx.snr)
              /\ IsSome(rx.location) =>
                    /\ IsSome(rec.gateway_location)
                    /\ Get(rec.gateway_location).latitude = Get(rx.location).latitude
                    /\ Get(rec.gateway_location).longitude = Get(rx.location).longitude
                    /\ Get(rec.gateway_location).altitude = Get(Get(rx.location).altitude)
              /\ ~IsSome(rx.location) => rec.gateway_location = None
        /\ ~hasRx => rec.gateway_location = None
        /\ rec.received_at = ParseDate(u.received_at)
        /\ rec.received_at.valid
        /\ rec.unique_id = Some(token)
        /\ rec.full_payload = body

\* C5: in the tolerant handler a schema-valid event that reaches the
\* existence check and matches no stored record goes on to the insert, and
\* when the collection accepts the insert exactly one record is appended, the
\* other records are unchanged, the response is 200 with the unique_id, and
\* every field of the new record is the one the event determines
C5_NovelEventStoredAsNormalized ==
    [][\A h \in Handlers :
          (/\ revision = "tolerant"
           /\ IsSome(req[h].body)
           /\ TolerantSchemaOk(Get(req[h].body))) =>
              /\ FindsNone(h) => req'[h].pc = "create"
              /\ CreateAccepted(h) =>
                    /\ Len(store') = Len(store) + 1
                    /\ SubSeq(store', 1, Len(store)) = store
                    /\ NormalizedFrom(store'[Len(store')], Get(req[h].body))
                    /\ req'[h].res = Some(Response(200, TRUE, Some("Dados armazenados"),
                                                   None, store'[Len(store')].unique_id))]_vars

\* a complete event carrying a gateway location was stored and acknowledged
C5_Witness ==
    \E h \in Handlers :
        /\ revision = "tolerant"
        /\ Done(h) /\ Status(h) = 200
        /\ Get(req[h].res).message = Some("Dados armazenados")
        /\ TolerantSchemaOk(Get(req[h].body))
        /\ \E i \in 1..Len(store) :
              /\ store[i].unique_id = req[h].unique_id
              /\ store[i].full_payload = Get(req[h].body)
              /\ IsSome(store[i].gateway_location)

\* the event reports a temperature outside [-40, 80] or a humidity outside [0, 100]
OutOfRangeEvent(body) ==
    /\ IsSome(body.uplink_message)
    /\ IsSome(Get(body.uplink_message).decoded_payload)
    /\ LET payload == Get(Get(body.uplink_message).decoded_payload)
           t == Get(payload.temperature_celsius)
           hum == Get(payload.humidity_percent)
       IN  t < -40 \/ t > 80 \/ hum < 0 \/ hum > 100

\* apart from its measurements the event is one the handler stores: complete,
\* with a parseable timestamp and a numeric frequency
OtherwiseStorable(body) ==
    /\ StrictSchemaOk([body EXCEPT !.unique_id = Some("any")])
    /\ Len(Get(Get(body.uplink_message).rx_metadata)) > 0
    /\ Get(Get(body.uplink_message).received_at) \in {TS1, TS2}
    /\ Get(Get(Get(body.uplink_message).settings).frequency) \in {"868100000", "868300000"}

\* the collection holds the event of h with the measurements it reported
StoredAsReported(h) ==
    LET payload == Get(Get(Get(req[h].body).uplink_message).decoded_payload)
    IN  \E i \in 1..Len(store) :
            /\ store[i].unique_id = req[h].unique_id
            /\ store[i].full_payload = Get(req[h].body)
            /\ store[i].temperature_celsius = Get(payload.temperature_celsius)
            /\ store[i].humidity_percent = Get(payload.humidity_percent)

\* a finished delivery of an out-of-range, otherwise storable event was
\* refused for nothing but a store outage or a record that already carries its
\* unique_id, and when it was acknowledged as stored the record holds the
\* reported values
RangeNeverPreventsStorage(h) ==
    (/\ Done(h)
     /\ OutOfRangeEvent(Get(req[h].body))
     /\ OtherwiseStorable(Get(req[h].body))) =>
        /\ Status(h) # 400
        /\ req[h].err \in {"", "MongoNetworkError", DuplicateKey}
        /\ (req[h].err = DuplicateKey
              \/ Get(req[h].res).message = Some("Duplicata ignorada"))
              => Matching(store, req[h].unique_id) # {}
        /\ Get(req[h].res).message = Some("Dados armazenados") => StoredAsReported(h)

\* C6 (as claimed): a physical-range violation never prevents storage, in
\* either revision of POST /ttn
C6_RangeNeverPreventsStorage ==
    \A h \in Handlers : RangeNeverPreventsStorage(h)

\* C6 (amended): a physical-range violation never prevents storage in the
\* tolerant handler
C6_TolerantRangeNeverPreventsStorage ==
    revision = "tolerant" => \A h \in Handlers : RangeNeverPreventsStorage(h)

\* an event reporting 150 degrees was stored with temperature_celsius = 150
C6_Witness ==
    \E h \in Handlers :
        /\ revision = "tolerant"
        /\ Done(h)
        /\ OutOfRangeEvent(Get(req[h].body))
        /\ Get(req[h].res).message = Some("Dados armazenados")
        /\ \E i \in 1..Len(store) :
              store[i].unique_id = req[h].unique_id /\ store[i].temperature_celsius = 150

\* C7 (as claimed): a delivery of an event that fails structural validation
\* is reported (the warning is logged) and goes on to the dedup check and the
\* insert: it ends as stored or as a duplicate, or on a failure of the store,
\* never on an error of its own that leaves no record
C7_MalformedEventNotDropped ==
    \A h \in Handlers :
        (/\ revision = "tolerant"
         /\ Done(h)
         /\ ~TolerantSchemaOk(Get(req[h].body))) =>
            /\ req[h].warned
            /\ req[h].err \in {"", "MongoNetworkError", DuplicateKey}

\* C8 (as claimed): every finished delivery of the tolerant handler has
\* status 200 or 500, and 500 only when findOne or create failed
C8_Only200Or500OnStoreFailure ==
    \A h \in Handlers :
        (revision = "tolerant" /\ Done(h)) =>
            /\ Status(h) \in {200, 500}
            /\ Status(h) = 500 =>
                  req[h].err \in {"MongoNetworkError", DuplicateKey, "ValidationError"}

\* the deliveries answered with an error status
Failed(h) == Done(h) /\ Status(h) >= 400

\* C9: no error path persists anything. A step that changes the collection
\* is the create of exactly one handler, which that step answers 200; every
\* other handler, and every delivery answered 400 or 500, leaves the records
\* as they were. A frame delivered again after an error is stored at most once.
C9_ErrorPathsPersistNothing ==
    /\ [][store' # store =>
            /\ Len(store') = Len(store) + 1
            /\ SubSeq(store', 1, Len(store)) = store
            /\ \E h \in Handlers :
                  /\ req[h].pc = "create" /\ Done(h)' /\ Status(h)' = 200
                  /\ store'[Len(store')] = WithSchemaDefaults(Get(req[h].document), now)
                  /\ \A g \in Handlers \ {h} : req'[g] = req[g]]_vars
    /\ [](\A h \in Handlers :
            (Failed(h) /\ IsSome(req[h].unique_id)) =>
                Cardinality(Matching(store, req[h].unique_id)) <= 1)

\* a delivery failed with 500 on its insert, the same event was delivered
\* again and stored: one record
C9_Witness ==
    /\ req[1].body = req[2].body
    /\ Failed(1) /\ req[1].err = "MongoNetworkError" /\ IsSome(req[1].document)
    /\ Done(2) /\ Get(req[2].res).message = Some("Dados armazenados")
    /\ Cardinality(Matching(store, req[2].unique_id)) = 1

\* handler h uses the string token as its key: for the existence check, in
\* the document and the stored record, and in the response
UsesAsKey(h, token) ==
    /\ req[h].pc # "idle" => req[h].unique_id = Some(token)
    /\ IsSome(req[h].document) => Get(req[h].document).unique_id = Some(token)
    /\ (Done(h) /\ Status(h) = 200) => Get(req[h].res).unique_id = Some(token)
    /\ (Done(h) /\ Get(req[h].res).message = Some("Dados armazenados")) =>
          \E i \in 1..Len(store) :
              store[i].unique_id = Some(token) /\ store[i].full_payload = Get(req[h].body)

\* C10 (as claimed): whenever the body supplies a unique_id the tolerant
\* handler uses exactly that value as its key
C10_SuppliedTokenVerbatim ==
    \A h \in Handlers :
        (/\ revision = "tolerant"
         /\ IsSome(req[h].body)
         /\ IsSome(Get(req[h].body).unique_id)) =>
            UsesAsKey(h, Get(Get(req[h].body).unique_id))

\* C10 (amended): whenever the body supplies a non-empty unique_id the
\* tolerant handler uses exactly that value as its key; when the body supplies
\* none or an empty one, the key is the derived hash
C10_NonEmptyTokenVerbatim ==
    \A h \in Handlers :
        (revision = "tolerant" /\ IsSome(req[h].body)) =>
            LET body == Get(req[h].body)
            IN  /\ (IsSome(body.unique_id) /\ Get(body.unique_id) # "") =>
                      UsesAsKey(h, Get(body.unique_id))
                /\ (body.unique_id \in {None, Some("")} /\ IsSome(req[h].unique_id)) =>
                      UsesAsKey(h, Sha256Hex16(HashInput(body)))

\* an event carrying the token "u1" was stored under "u1"
C10_Witness ==
    \E h \in Handlers :
        /\ revision = "tolerant"
        /\ Done(h)
        /\ Get(req[h].body).unique_id = Some("u1")
        /\ Get(req[h].res).message = Some("Dados armazenados")
        /\ Get(req[h].res).unique_id = Some("u1")
        /\ Matching(store, Some("u1")) # {}

\* handler h was given an event without a unique_id whose fingerprint can be
\* derived, and the three values the fingerprint is derived from
Derives(h) ==
    /\ IsSome(req[h].body)
    /\ Get(req[h].body).unique_id = None
    /\ CanGenerateUniqueId(Get(req[h].body))

FingerprintTriple(body) ==
    <<Get(body.end_device_ids).device_id,
      Get(body.uplink_message).f_cnt,
      Get(body.uplink_message).received_at>>

StoredAnswer(h) == Done(h) /\ Get(req[h].res).message = Some("Dados armazenados")

\* C11: two events without a unique_id that agree on device_id, f_cnt and
\* the raw received_at string are given the same unique_id by the tolerant
\* handler, whatever their other fields are; the collection never holds two
\* records for them, and they are never both answered as stored
C11_SameTripleSameFingerprint ==
    revision = "tolerant" =>
        \A h, g \in Handlers :
            (/\ Derives(h) /\ Derives(g)
             /\ FingerprintTriple(Get(req[h].body)) = FingerprintTriple(Get(req[g].body)))
            => /\ req[h].unique_id = req[g].unique_id
               /\ Cardinality(Matching(store, req[h].unique_id)) <= 1
               /\ h # g => ~(StoredAnswer(h) /\ StoredAnswer(g))

\* an event was stored, and an event that differs from it in its payload
\* but not in the triple was answered as its duplicate
C11_Witness ==
    /\ revision = "tolerant"
    /\ Derives(1) /\ Derives(2)
    /\ req[1].body # req[2].body
    /\ FingerprintTriple(Get(req[1].body)) = FingerprintTriple(Get(req[2].body))
    /\ StoredAnswer(1)
    /\ Done(2) /\ req[2].res = DuplicateIgnored(req[1].unique_id)
    /\ Cardinality(Matching(store, req[1].unique_id)) = 1

\* the event a stored record was made from, for the records made by a handler
FromEvent(rec) == IsSome(rec.full_payload.uplink_message)
RawTimestamp(body) == Get(body.uplink_message).received_at

\* C12: every stored record has a received_at that is a valid point in time,
\* and for a record made from an event it is the time the event's uplink
\* timestamp parses to; a delivery whose timestamp is missing or does not
\* parse has stored nothing when it is answered
C12_ReceivedAtValid ==
    /\ \A i \in 1..Len(store) :
          /\ store[i].received_at.valid
          /\ FromEvent(store[i]) =>
                store[i].received_at = ParseDate(RawTimestamp(store[i].full_payload))
    /\ \A h \in Handlers :
          (/\ Done(h)
           /\ IsSome(Get(req[h].body).uplink_message)
           /\ ~ParseDate(RawTimestamp(Get(req[h].body))).valid)
          => /\ ~StoredAnswer(h)
             /\ \A i \in 1..Len(store) : store[i].full_payload # Get(req[h].body)

\* an event whose timestamp does not parse reached the insert and was refused,
\* and an event with a timestamp was stored with the time it parses to
C12_Witness ==
    /\ \E h \in Handlers :
          /\ Done(h) /\ req[h].err = "ValidationError"
          /\ RawTimestamp(Get(req[h].body)) = Some(BadTS)
          /\ ~Get(req[h].document).received_at.valid
    /\ \E i \in 1..Len(store) :
          /\ FromEvent(store[i])
          /\ RawTimestamp(store[i].full_payload) = Some(TS2)
          /\ store[i].received_at = DateOf(2)

\* the optional parts of an event, undefined where the event leaves them out
PayloadField(body, f) ==
    LET payload == Get(body.uplink_message).decoded_payload
    IN  IF IsSome(payload) THEN Get(payload)[f] ELSE None

FirstRx(body) ==
    LET rx == Get(body.uplink_message).rx_metadata
    IN  IF IsSome(rx) /\ Len(Get(rx)) > 0 THEN Some(Get(rx)[1]) ELSE None

RxField(body, f) == IF IsSome(FirstRx(body)) THEN Get(FirstRx(body))[f] ELSE None

GatewayField(body, f) ==
    IF IsSome(RxField(body, "gateway_ids")) THEN Get(RxField(body, "gateway_ids"))[f] ELSE None

SettingsField(body, f) ==
    LET settings == Get(body.uplink_message).settings
    IN  IF IsSome(settings) THEN Get(settings)[f] ELSE None

LoraField(body, f) ==
    LET rate == SettingsField(body, "data_rate")
    IN  IF IsSome(rate) /\ IsSome(Get(rate).lora) THEN Get(Get(rate).lora)[f] ELSE None

\* rec holds the default of every optional field that body leaves out, the
\* default of f_port being port
HoldsDefaults(rec, body, port) ==
    /\ \A f \in {"temperature_celsius", "humidity_percent", "packet_counter"} :
          ~IsSome(PayloadField(body, f)) => rec[f] = 0
    /\ ~IsSome(Get(body.uplink_message).f_port) => rec.f_port = port
    /\ ~IsSome(Get(body.uplink_message).f_cnt) => rec.f_cnt = 0
    /\ \A f \in {"rssi", "snr"} : ~IsSome(RxField(body, f)) => rec[f] = 0
    /\ \A f \in {"spreading_factor", "bandwidth"} :
          ~IsSome(LoraField(body, f)) => rec[f] = 0
    /\ ~IsSome(SettingsField(body, "frequency")) => rec.frequency = Num(0)
    /\ ~IsSome(GatewayField(body, "gateway_id")) => rec.gateway_id = "unknown"
    /\ ~IsSome(GatewayField(body, "eui")) => rec.gateway_eui = "unknown"
    /\ ~IsSome(RxField(body, "location")) => rec.gateway_location = None

\* C16 (as claimed): a record stored by the tolerant handler holds, for every
\* optional field its event leaves out, the default: 0 for every numeric
\* field, f_port among them, "unknown" for the gateway identifiers, null for
\* the gateway location
C16_DefaultsZero ==
    revision = "tolerant" =>
        \A i \in 1..Len(store) :
            FromEvent(store[i]) => HoldsDefaults(store[i], store[i].full_payload, 0)

\* C16 (amended): as claimed, except that the default of f_port is 1
C16_DefaultsPortOne ==
    revision = "tolerant" =>
        \A i \in 1..Len(store) :
            FromEvent(store[i]) => HoldsDefaults(store[i], store[i].full_payload, 1)

\* an event without f_port was stored
C16_Witness ==
    /\ revision = "tolerant"
    /\ \E i \in 1..Len(store) :
          /\ FromEvent(store[i])
          /\ ~IsSome(Get(store[i].full_payload.uplink_message).f_port)
          /\ store[i].f_port = 1

\* the event's settings.frequency is present and is not numeric text
NonNumericFrequency(body) ==
    /\ IsSome(body.uplink_message)
    /\ TruthyStr(SettingsField(body, "frequency"))
    /\ ParseInt(Get(SettingsField(body, "frequency"))).nan

\* C17 (as claimed): an event whose settings.frequency is not numeric text
\* does not fail in the tolerant handler: the document it builds has
\* frequency 0, the insert is not refused for it, and once the store accepted
\* the insert the record holds frequency 0 and the response is 200
C17_NonNumericFrequencyStoredAsZero ==
    \A h \in Handlers :
        (/\ revision = "tolerant"
         /\ IsSome(req[h].body)
         /\ NonNumericFrequency(Get(req[h].body)))
        => /\ IsSome(req[h].document) => Get(req[h].document).frequency = Num(0)
           /\ Done(h) => req[h].err # "ValidationError"
           /\ StoredAnswer(h) =>
                 /\ Status(h) = 200
                 /\ \E i \in 1..Len(store) :
                       /\ store[i].full_payload = Get(req[h].body)
                       /\ store[i].frequency = Num(0)

----------------------------------------------------------------------------
\* Properties of the GET endpoints

Answered(endpoint) == get.pc = "done" /\ get.endpoint = endpoint

\* the request names a device, and the collection holds no reading of it
NoReadingsOfDevice ==
    /\ TruthyStr(get.query.device_id)
    /\ \A i \in 1..Len(store) : store[i].device_id # get.query.device_id

\* C13: a request to latest, statistics or quality for a device of which the
\* collection holds no reading is answered 404 with an error and no values,
\* whenever the collection answers the query; it is never answered 200, and
\* 500 only when the collection cannot be reached
C13_NoReadingsNotFound ==
    \A endpoint \in {"latest", "statistics", "quality"} :
        (Answered(endpoint) /\ NoReadingsOfDevice) =>
            /\ get.status \in {404, 500}
            /\ get.status = 500 <=> get.err = "MongoNetworkError"
            /\ DOMAIN get.json = {"error"}

\* statistics was asked for a device without readings while the collection
\* holds readings of another device, and answered 404
C13_Witness ==
    /\ Answered("statistics") /\ NoReadingsOfDevice
    /\ Len(store) > 0
    /\ get.status = 404

\* the readings a statistics request is about: those of its device that were
\* received within its window before the request
AskedPeriod == IF IsSome(get.query.period) THEN Get(get.query.period) ELSE "24h"

WindowReadings ==
    {i \in 1..Len(store) :
        /\ store[i].device_id = get.query.device_id
        /\ store[i].received_at.t >= now - Window(AskedPeriod)}

\* the decimal string shown is exactly the quotient num / den, or is within
\* half a unit of its last digit of it
ShowsExactly(shown, num, den) == shown.scaled * den = num * Pow10(shown.digits)

ShowsRounded(shown, num, den) ==
    LET diff == shown.scaled * den - num * Pow10(shown.digits)
    IN  2 * diff <= den /\ 2 * diff >= -den

\* the minimum and the maximum of a field over the window's readings
IsMinOf(v, S, f) == (\E i \in S : store[i][f] = v) /\ (\A i \in S : v <= store[i][f])
IsMaxOf(v, S, f) == (\E i \in S : store[i][f] = v) /\ (\A i \in S : store[i][f] <= v)

\* the statistics answer reports packet_count, and the minimum and maximum of
\* the four measurements, of the window's readings
ReportsCountMinMax ==
    LET S == WindowReadings
        json == get.json
    IN  /\ json.packet_count = Cardinality(S)
        /\ \E min, max \in {store[i].temperature_celsius : i \in S} :
              /\ IsMinOf(min, S, "temperature_celsius")
              /\ IsMaxOf(max, S, "temperature_celsius")
              /\ ShowsExactly(json.temperature.min, min, 1)
              /\ ShowsExactly(json.temperature.max, max, 1)
        /\ \E min, max \in {store[i].humidity_percent : i \in S} :
              /\ IsMinOf(min, S, "humidity_percent")
              /\ IsMaxOf(max, S, "humidity_percent")
              /\ ShowsExactly(json.humidity.min, min, 1)
              /\ ShowsExactly(json.humidity.max, max, 1)
        /\ IsMinOf(json.rssi.min, S, "rssi") /\ IsMaxOf(json.rssi.max, S, "rssi")
        /\ IsMinOf(json.snr.min, S, "snr") /\ IsMaxOf(json.snr.max, S, "snr")

\* Shows is ShowsExactly or ShowsRounded
ReportsMeans(Shows(_, _, _)) ==
    LET S == WindowReadings
        json == get.json
    IN  /\ Shows(json.temperature.avg, SumOf(store, S, "temperature_celsius"), Cardinality(S))
        /\ Shows(json.humidity.avg, SumOf(store, S, "humidity_percent"), Cardinality(S))
        /\ Shows(json.rssi.avg, SumOf(store, S, "rssi"), Cardinality(S))
        /\ Shows(json.snr.avg, SumOf(store, S, "snr"), Cardinality(S))

\* C14 (as claimed): a statistics answer reports the exact minimum, the exact
\* maximum and the arithmetic mean of temperature, humidity, RSSI and SNR of
\* exactly the device's readings in the window, and their number
C14_StatisticsExact ==
    (Answered("statistics") /\ get.status = 200) =>
        ReportsCountMinMax /\ ReportsMeans(ShowsExactly)

\* C14 (amended): as claimed, except that each mean is reported rounded: to
\* two decimals for temperature, to one for humidity, RSSI and SNR
C14_StatisticsRounded ==
    (Answered("statistics") /\ get.status = 200) =>
        /\ ReportsCountMinMax /\ ReportsMeans(ShowsRounded)
        /\ get.json.temperature.avg.digits = 2
        /\ \A f \in {"humidity", "rssi", "snr"} : get.json[f].avg.digits = 1

\* the readings 20, 22 and 24 of one device are in the window, next to a
\* reading outside it or of another device: min 20, max 24, mean 22
C14_Witness ==
    /\ Answered("statistics") /\ get.status = 200
    /\ {store[i].temperature_celsius : i \in WindowReadings} = {20, 22, 24}
    /\ get.json.packet_count = 3
    /\ get.json.temperature = MinMaxAvg(ToFixed(20, 1, 2), ToFixed(24, 1, 2), ToFixed(22, 1, 2))
    /\ get.json.humidity.avg = [digits |-> 1, scaled |-> 507]

\* the sets of readings the quality handler can have sampled for the request
QualitySamples ==
    LET mine == {i \in 1..Len(store) : store[i].device_id = get.query.device_id}
    IN  {{Limit(order, LimitOf(get.query.limit))[k] : k \in 1..get.json.total_readings} :
            order \in SortedDesc(store, mine)}

\* the band the thresholds assign to the mean sum / n
BandOfMean(sum, n, quality) ==
    /\ quality \in {"excellent", "good", "fair", "poor"}
    /\ quality = "excellent" <=> sum > -70 * n
    /\ quality = "good" <=> (sum > -80 * n /\ sum <= -70 * n)
    /\ quality = "fair" <=> (sum > -90 * n /\ sum <= -80 * n)
    /\ quality = "poor" <=> sum <= -90 * n

\* C15: a quality answer classifies the mean RSSI of its sample as excellent
\* above -70, good in (-80, -70], fair in (-90, -80] and poor at or below -90:
\* a mean of exactly -70 is good, of -80 fair, of -90 poor, and every mean is
\* in exactly one band
C15_QualityBands ==
    (Answered("quality") /\ get.status = 200) =>
        \E S \in QualitySamples :
            /\ Cardinality(S) = get.json.total_readings
            /\ BandOfMean(SumOf(store, S, "rssi"), Cardinality(S), get.json.quality)

\* the sampled readings have a mean RSSI of exactly -80, from values that are
\* not all -80, and the answer is fair
C15_Witness ==
    /\ Answered("quality") /\ get.status = 200
    /\ get.json.total_readings = 3
    /\ get.json.avg_rssi = [digits |-> 1, scaled |-> -800]
    /\ get.json.signal_strength = [excellent |-> 0, good |-> 1, fair |-> 1, poor |-> 1]
    /\ get.json.quality = "fair"

\* one packet every two minutes over the window of the period
NominalPackets(period) ==
    CASE period = "1h" -> 30
      [] period = "24h" -> 720
      [] period = "7d" -> 5040
      [] period = "30d" -> 21600

\* the statistics answer to a request for one of the four periods reports
\* the success rate packet_count / expected * 100, as Shows tells
ReportsSuccessRate(Shows(_, _, _)) ==
    (/\ Answered("statistics") /\ get.status = 200
     /\ AskedPeriod \in {"1h", "24h", "7d", "30d"}) =>
        LET expected == NominalPackets(AskedPeriod)
            shown == get.json.success_rate
        IN  /\ get.json.packet_count = Cardinality(WindowReadings)
            /\ Shows(shown, get.json.packet_count * 100, expected)
            /\ get.json.packet_count > expected => shown.scaled > 100 * Pow10(shown.digits)

----------------------------------------------------------------------------
\* Properties of the collection over time

\* this step is a step of a delivery, of a GET request, or of neither
DeliveryStep == req' # req
GetStep == get' # get

\* the collection after the step is the collection before it plus one record
AddsOne == Len(store') = Len(store) + 1 /\ SubSeq(store', 1, Len(store)) = store

\* the collection after the step is the collection before it without one
\* record, which had been created t minutes or more before
RemovesOneAged(t) ==
    \E i \in 1..Len(store) :
        /\ store' = RemoveAt(store, i)
        /\ IsSome(store[i].created_at)
        /\ Get(store[i].created_at).t + t <= now

\* C19: no request mutates or deletes a stored record. A step of a GET
\* request (latest, readings, statistics, quality, health) leaves the
\* collection as it is; a step of a delivery leaves it as it is or adds one
\* record after the records it holds; every other step that changes the
\* collection removes one expired record and leaves the other records as
\* they are
C19_RecordsImmutable ==
    [][/\ GetStep => store' = store
       /\ DeliveryStep => (store' = store \/ AddsOne)
       /\ (store' # store /\ ~DeliveryStep) =>
             (~GetStep /\ RemovesOneAged(ExpireAfter))]_vars

\* a delivery was stored next to the older records, a GET request was
\* answered from the collection, and an expired record has been removed
C19_Witness ==
    /\ \E h \in Handlers : StoredAnswer(h)
    /\ Answered("readings") /\ get.status = 200 /\ Len(get.json.data) = 1
    /\ now >= ExpireAfter
    /\ Len(store) = 2
    /\ \E i \in 1..Len(store) : store[i].unique_id = Some("u1")
    /\ \E i \in 1..Len(store) : store[i] = LegacyRecord(TS2)

\* the record was created more than the retention period ago
Overdue(rec) == IsSome(rec.created_at) /\ Get(rec.created_at).t + ExpireAfter < now

InStore(rec) == \E i \in 1..Len(store) : store[i] = rec

AnyOverdue == \E i \in 1..Len(store) : Overdue(store[i])

\* C18: with the TTL pass running again and again, the records created more
\* than 90 days ago are eventually all removed, whatever deliveries and
\* requests are served meanwhile. A record that enters the collection is
\* created at that moment, so a removed record never returns, and the record
\* that latest answers with is in the collection when it answers. A step
\* that removes a record removes one created 90 days ago or earlier
C18_Retention ==
    /\ AnyOverdue ~> ~AnyOverdue
    /\ [][\A j \in 1..Len(store') :
            InStore(store'[j]) \/ store'[j].created_at = Some(DateOf(now))]_vars
    /\ [][(GetStep /\ get'.pc = "done" /\ get'.status = 200) =>
            InStore(get'.json)]_vars
    /\ [][Len(store') < Len(store) => RemovesOneAged(ExpireAfter)]_vars

\* after 90 days the two older records are gone, and a record stored 45 days
\* ago is kept
C18_Witness ==
    /\ now = StartTime + ExpireAfter
    /\ ~InStore(LegacyRecord(TS1)) /\ ~InStore(LegacyRecord(TS2))
    /\ \E i \in 1..Len(store) :
          store[i].created_at = Some(DateOf(StartTime + ExpireAfter \div 2))

\* the lookback of a period value in minutes: an hour, a day, a week, thirty
\* days, and a day for every other value
Lookback(period) ==
    IF period = Some("1h") THEN 60
    ELSE IF period = Some("7d") THEN 10080
    ELSE IF period = Some("30d") THEN 43200
    ELSE 1440

\* the readings of the requested device received at or after the request
\* time minus the lookback
LookbackReadings ==
    {i \in 1..Len(store) :
        /\ store[i].device_id = get.query.device_id
        /\ store[i].received_at.t >= now - Lookback(get.query.period)}

\* C21: a statistics request that names a device and reaches the collection
\* is answered 404 when the device has no reading received at or after the
\* request time minus the window, and otherwise 200 with the count and the
\* extremes of exactly those readings; the window is 1h, 24h, 7d or 30d for
\* those period values and 24h for an absent or any other value
C21_StatisticsWindow ==
    (Answered("statistics") /\ TruthyStr(get.query.device_id) /\ get.err = "") =>
        LET S == LookbackReadings
        IN  /\ S = {} => (get.status = 404 /\ DOMAIN get.json = {"error"})
            /\ S # {} =>
                  /\ get.status = 200
                  /\ get.json.packet_count = Cardinality(S)
                  /\ IsMinOf(get.json.rssi.min, S, "rssi")
                  /\ IsMaxOf(get.json.rssi.max, S, "rssi")
                  /\ IsMinOf(get.json.snr.min, S, "snr")
                  /\ IsMaxOf(get.json.snr.max, S, "snr")

\* a device whose readings are all older than the hour asked for gets 404
C21_Witness ==
    /\ Answered("statistics") /\ get.err = ""
    /\ get.query.period = Some("1h")
    /\ \E i \in 1..Len(store) : store[i].device_id = get.query.device_id
    /\ get.status = 404

\* the limit a quality or readings request asks for: the one given, or 100
AskedLimit == IF IsSome(get.query.limit) THEN Get(get.query.limit) ELSE 100

\* the readings of the requested device
OfAskedDevice == {i \in 1..Len(store) : store[i].device_id = get.query.device_id}

\* the first n readings of an order of the requested device's readings are
\* n of its readings, and none of the others is newer than one of them
NewestOf(order, n) ==
    LET S == {order[k] : k \in 1..n}
    IN  /\ S \subseteq OfAskedDevice
        /\ Cardinality(S) = n
        /\ \A i \in S : \A j \in OfAskedDevice \ S :
              store[i].received_at.t >= store[j].received_at.t

\* the number of the readings S whose RSSI is above lo and at most hi
InBand(S, lo, hi) == Cardinality({i \in S : lo < store[i].rssi /\ store[i].rssi <= hi})

\* C22: in every 200 answer of the quality endpoint the sample is the newest
\* readings of the device, as many as the device has but at most limit (100
\* when no limit is given); total_readings is the size of the sample,
\* current_rssi is the RSSI of a newest reading, and the four band counts
\* partition the sample, so that they sum to total_readings
C22_QualitySample ==
    (Answered("quality") /\ get.status = 200) =>
        LET n == get.json.total_readings
            bands == get.json.signal_strength
        IN  /\ n = (IF AskedLimit < Cardinality(OfAskedDevice)
                     THEN AskedLimit ELSE Cardinality(OfAskedDevice))
            /\ \E order \in SortedDesc(store, OfAskedDevice) :
                LET S == {order[k] : k \in 1..n}
                IN
                  /\ NewestOf(order, n)
                  /\ \E first \in S :
                        /\ \A i \in OfAskedDevice :
                              store[first].received_at.t >= store[i].received_at.t
                        /\ get.json.current_rssi = store[first].rssi
                  /\ bands.excellent = Cardinality({i \in S : store[i].rssi > -70})
                  /\ bands.good = InBand(S, -80, -70)
                  /\ bands.fair = InBand(S, -90, -80)
                  /\ bands.poor = Cardinality({i \in S : store[i].rssi <= -90})
            /\ bands.excellent + bands.good + bands.fair + bands.poor = n

\* the skip a readings request asks for: the one given, or 0
AskedSkip == IF IsSome(get.query.skip) THEN Get(get.query.skip) ELSE 0

\* the stored readings of the requested device inside the requested dates
InAskedRange ==
    {i \in OfAskedDevice :
        /\ IsSome(get.query.start_date) =>
              store[i].received_at.t >= ParseDate(get.query.start_date).t
        /\ IsSome(get.query.end_date) =>
              store[i].received_at.t <= ParseDate(get.query.end_date).t}

\* min(limit, max(0, total - skip))
PageSize(total, limit, skip) ==
    LET rest == IF total > skip THEN total - skip ELSE 0
    IN  IF limit < rest THEN limit ELSE rest

\* the answer of the readings endpoint agrees with the collection: total is
\* the number of stored readings of the device inside the date range, data is
\* in descending order of received_at and has min(limit, max(0, total - skip))
\* entries
PageAgrees ==
    LET data == get.json.data
    IN  /\ get.json.total = Cardinality(InAskedRange)
        /\ \A k \in 1..(Len(data) - 1) :
              data[k].received_at.t >= data[k + 1].received_at.t
        /\ Len(data) = PageSize(get.json.total, AskedLimit, AskedSkip)

\* the readings handler sends a 200 answer in this step
ReadingsResponds ==
    /\ get.pc = "count"
    /\ get'.pc = "done" /\ get'.endpoint = "readings" /\ get'.status = 200

\* C23: every 200 answer of the readings endpoint agrees, when it is sent,
\* with the collection in total, order and number of entries, whatever limit
\* and skip are, also when a delivery inserts or the reaper removes between
\* the data query and the count query
C23_ReadingsPage == [][ReadingsResponds => PageAgrees']_vars

\* the strict revision has to reject the event: it fails the schema, or its
\* temperature or humidity is outside the physical range
StrictInvalid(body) == ~StrictSchemaOk(body) \/ OutOfRangeEvent(body)

\* C24: in the strict revision every delivery of an event that fails the
\* schema, or whose temperature is outside [-40, 80] or whose humidity is
\* outside [0, 100], is answered 400 and has built and inserted no document,
\* whatever the collection holds; it is never answered 200
C24_StrictRejects ==
    revision = "strict" =>
        \A h \in Handlers :
            (Done(h) /\ StrictInvalid(Get(req[h].body))) =>
                /\ Get(req[h].res).status = 400
                /\ req[h].document = None

\* the triple of an event with an absent frame counter read as 0
CountedTriple(body) ==
    LET f_cnt == Get(body.uplink_message).f_cnt
    IN  <<Get(body.end_device_ids).device_id,
          IF IsSome(f_cnt) THEN Get(f_cnt) ELSE 0,
          Get(body.uplink_message).received_at>>

\* a delivery answered as a duplicate, by the existence check or by the index
AnsweredDuplicate(h) ==
    /\ Done(h)
    /\ \/ Get(req[h].res).message = Some("Duplicata ignorada")
       \/ req[h].err = DuplicateKey

\* two deliveries of events without a unique_id whose triples, as Triple
\* reads them, differ are keyed differently, neither is answered as a
\* duplicate unless a third delivery has its key, and when both are answered
\* 200 the collection holds a record of each
NeverDuplicates(Triple(_)) ==
    revision = "tolerant" =>
        \A h, g \in Handlers :
            (/\ h # g
             /\ Derives(h) /\ Derives(g)
             /\ Triple(Get(req[h].body)) # Triple(Get(req[g].body)))
            => /\ req[h].unique_id # req[g].unique_id
               /\ AnsweredDuplicate(h) =>
                     \E k \in Handlers \ {h, g} : req[k].unique_id = req[h].unique_id
               /\ (Done(h) /\ Done(g) /\ Status(h) = 200 /\ Status(g) = 200) =>
                     /\ Cardinality(Matching(store, req[h].unique_id)) = 1
                     /\ Cardinality(Matching(store, req[g].unique_id)) = 1
                     /\ Matching(store, req[h].unique_id) # Matching(store, req[g].unique_id)

\* C25 as stated: two events without a unique_id that differ in the device,
\* in the frame counter (an absent one differing from 0) or in the uplink
\* timestamp are never treated as duplicates of each other, and delivering
\* both leaves two records
C25_DistinctEventsBothStored == NeverDuplicates(FingerprintTriple)

\* C25 with an absent frame counter read as 0: two events without a
\* unique_id that differ in the device, in the frame counter so read or in
\* the uplink timestamp are never treated as duplicates of each other, and
\* delivering both leaves two records
C25_DistinctCountedTriplesBothStored == NeverDuplicates(CountedTriple)

\* two events that differ in the frame counter alone, one of them without a
\* frame counter, were both stored
C25_Witness ==
    /\ revision = "tolerant"
    /\ Derives(1) /\ Derives(2)
    /\ Get(Get(req[1].body).uplink_message).f_cnt = None
    /\ Get(req[2].body) = BaseBody
    /\ StoredAnswer(1) /\ StoredAnswer(2)
    /\ Len(store) = Len(InitialStore) + 2

\* the collection without the readings of every device but the requested one
IsOfAskedDevice(rec) == rec.device_id = get.query.device_id
OnlyAskedDevice == SelectSeq(store, IsOfAskedDevice)

\* the pages the readings handler can return from the collection st
PagesOf(st, query) ==
    {[k \in 1..Len(page) |-> st[page[k]]] :
        page \in {Limit(Skip(order, SkipOf(query.skip)), LimitOf(query.limit)) :
                    order \in SortedDesc(st, InRange(st, query))}}

\* C26: an answer of latest, readings, statistics or quality to a request
\* for device d that the collection has served is an answer the endpoint
\* gives on the collection without the readings of the other devices, in
\* status and in body; every reading it returns is a reading of d, and
\* latest returns a stored reading of d than which none of d is newer
C26_OwnReadingsOnly ==
    (/\ get.pc = "done"
     /\ get.endpoint \in {"latest", "readings", "statistics", "quality"}
     /\ get.err = "" /\ TruthyStr(get.query.device_id)) =>
        LET d == get.query.device_id
            mine == OnlyAskedDevice
        IN  CASE get.endpoint = "latest" ->
                    /\ get \in LatestAnswers(mine, d, TRUE)
                    /\ get.status = 200 =>
                          /\ get.json.device_id = d
                          /\ \E i \in OfAskedDevice : store[i] = get.json
                          /\ \A i \in OfAskedDevice :
                                store[i].received_at.t <= get.json.received_at.t
              [] get.endpoint = "statistics" ->
                    get = StatisticsAnswer(mine, now, d, get.query.period, TRUE)
              [] get.endpoint = "quality" ->
                    get \in QualityAnswers(mine, d, get.query.limit, TRUE)
              [] get.endpoint = "readings" ->
                    /\ get.status = 200
                    /\ \A k \in 1..Len(get.json.data) : get.json.data[k].device_id = d
                    /\ get.json.total = Cardinality(InRange(mine, get.query))
                    /\ get.json.data \in PagesOf(mine, get.query)

\* a request for a device was answered with its newest reading, or with a
\* page of its readings, from a collection that holds a newer reading of
\* another device
C26_Witness ==
    /\ get.pc = "done" /\ get.err = "" /\ get.status = 200
    /\ \/ /\ get.endpoint = "latest"
          /\ \E i \in 1..Len(store) :
                /\ store[i].device_id # get.query.device_id
                /\ store[i].received_at.t > get.json.received_at.t
       \/ /\ get.endpoint = "readings"
          /\ Len(get.json.data) > 0
          /\ \E i \in 1..Len(store) :
                /\ store[i].device_id # get.query.device_id
                /\ store[i].received_at.t > get.json.data[1].received_at.t

====
